---- MODULE Spec2Model ----
(***************************************************************************)
(* State-machine model of GeminiRAG (src/gemini_rag.py): one object that   *)
(* creates a remote File Search store, uploads transcript files into it,   *)
(* answers questions against it and deletes it on cleanup.  The remote     *)
(* service is an environment whose calls may succeed, fail or stay         *)
(* pending; every such outcome is drawn nondeterministically.              *)
(***************************************************************************)
EXTENDS Integers, Sequences, FiniteSets, TLC

(***************************************************************************)
(* Bounds of the model.                                                    *)
(***************************************************************************)
\* Longest file_paths list passed to upload_files.
MaxFiles == 2
\* Number of remote stores the service may create over the object's life.
MaxStores == 2
\* The maximum wait the design asks for, counted in 2 s polls.
MaxWaitPolls == 2
\* The poll counter saturates one past the maximum wait.
MaxPolls == MaxWaitPolls + 1
\* Longest list of grounding chunks in a candidate.
MaxChunks == 2
\* Number of questions the chat loop answers before it takes no more.
MaxHistory == 1

(***************************************************************************)
(* Values.                                                                 *)
(***************************************************************************)
\* self.file_search_store = None
None == 0

\* The transcript files main writes are numbered in the order of the videos.
FileNames == <<"001_a.txt", "002_b.txt", "003_c.txt", "004_d.txt">>

\* File paths are <<directory, file name>>.
Path(i) == <<"transcripts", FileNames[i]>>

Paths == { Path(i) : i \in 1..MaxFiles }

\* os.path.basename(file_path)
Basename(path) == path[2]

\* The file_paths arguments: the lists of distinct transcript files, in
\* the order of their numbers.
PathLists ==
    { [i \in 1..Len(ns) |-> Path(ns[i])] :
          ns \in { s \in UNION { [1..n -> 1..MaxFiles] : n \in 0..MaxFiles } :
                       \A i \in 1..(Len(s) - 1) : s[i] < s[i + 1] } }

\* str(e) of a raised exception; it may be the empty string.
Causes == { <<>>, <<"503 UNAVAILABLE">> }

\* Fragments that are whitespace.
Whitespace == { " " }

\* s.lstrip(), s.rstrip() and s.strip()
RECURSIVE LStrip(_)
LStrip(s) == IF s # <<>> /\ Head(s) \in Whitespace THEN LStrip(Tail(s)) ELSE s

RECURSIVE RStrip(_)
RStrip(s) ==
    IF s # <<>> /\ s[Len(s)] \in Whitespace
    THEN RStrip(SubSeq(s, 1, Len(s) - 1))
    ELSE s

Strip(s) == RStrip(LStrip(s))

\* s.lower(), fragment by fragment.
LowerFragment(f) ==
    CASE f = "EXIT" -> "exit"
      [] f = "What is covered?" -> "what is covered?"
      [] OTHER -> f

Lower(s) == [i \in 1..Len(s) |-> LowerFragment(s[i])]

\* The question arguments of query: the empty string, blanks and a question.
Questions == { <<>>, <<" ">>, <<"What is covered?">> }

\* Prefix of the answer built when generate_content raises.
ErrorPrefix == "Error generating response: "

\* Slice bound of entry.rendered_content[:200].
PrefixLen == 200

\* The suffix appended to the truncated rendered content.
Ellipsis == <<".", ".", ".">>

\* Source label of a citation synthesized from a search entry point.
FileSearchLabel == "File Search"

\* getattr(chunk, 'source', 'Unknown')
UnknownLabel == "Unknown"

Min(a, b) == IF a < b THEN a ELSE b

(***************************************************************************)
(* Strings are sequences of non-empty fragments, <<>> being the empty      *)
(* string; rendered content is written one character per fragment, so a    *)
(* slice of it is exact.                                                   *)
(***************************************************************************)
\* n characters of rendered content, the i-th being written ToString(i).
Rendered(n) == [i \in 1..n |-> ToString(i)]

\* s[:n]
Prefix(s, n) == SubSeq(s, 1, Min(n, Len(s)))

\* Python truthiness of a string.
Truthy(s) == Len(s) > 0

(***************************************************************************)
(* The generate_content response, as far as query and _extract_citations   *)
(* read it.  A grounding chunk may lack the text or the source attribute;  *)
(* grounding_metadata, grounding_chunks, search_entry_point and            *)
(* rendered_content may each be missing ("absent"), None ("none") or set.  *)
(***************************************************************************)
Chunk(hasText, text, hasSource, source) ==
    [hasText |-> hasText, text |-> text, hasSource |-> hasSource, source |-> source]

EmptyChunk  == Chunk(TRUE, <<>>, TRUE, <<"001_a.txt">>)
TextChunk   == Chunk(TRUE, <<"passage">>, TRUE, <<"001_a.txt">>)
NoSrcChunk  == Chunk(TRUE, <<"other passage">>, FALSE, <<>>)
NoTextChunk == Chunk(FALSE, <<>>, TRUE, <<"002_b.txt">>)

Candidate(meta, chunks, chunkList, entry, rendered, content) ==
    [meta |-> meta, chunks |-> chunks, chunkList |-> chunkList,
     entry |-> entry, rendered |-> rendered, content |-> content]

\* The candidates a response is built from.
Candidates ==
    { Candidate("absent", "absent", <<>>, "absent", "absent", <<>>),
      Candidate("none", "absent", <<>>, "absent", "absent", <<>>),
      Candidate("object", "list", <<EmptyChunk, TextChunk>>, "absent", "absent", <<>>),
      Candidate("object", "list", <<NoSrcChunk, NoTextChunk>>, "none", "absent", <<>>),
      Candidate("object", "absent", <<>>, "object", "text", Rendered(PrefixLen + 1)),
      Candidate("object", "none", <<>>, "object", "text", Rendered(3)),
      Candidate("object", "list", <<TextChunk>>, "object", "none", <<>>) }

\* The candidate lists of the responses query is given: none, or one candidate.
CandidateLists == { <<>> } \cup { <<c>> : c \in Candidates }

\* response.text: None, the empty string, or an answer.
Texts == { [kind |-> "none", chars |-> <<>>],
           [kind |-> "text", chars |-> <<>>],
           [kind |-> "text", chars |-> <<"The videos cover AI.">>] }

\* str(response), used when the response has no text attribute.
ReprOfResponse == [kind |-> "text", chars |-> <<"GenerateContentResponse(...)">>]

Responses ==
    { [hasText |-> TRUE, text |-> t, candidates |-> cs] :
          t \in Texts, cs \in CandidateLists }
    \cup { [hasText |-> FALSE, text |-> [kind |-> "none", chars |-> <<>>],
            candidates |-> <<>>] }

\* The responses given to the queries of a session: any text, with no
\* candidate or with one candidate that holds grounding chunks.
SessionResponses ==
    { r \in Responses :
          r.candidates \in
              { <<>>,
                << Candidate("object", "list", <<EmptyChunk, TextChunk>>,
                             "absent", "absent", <<>>) >> } }

\* The grounding chunks a response may carry.
Chunks == { EmptyChunk, TextChunk, NoSrcChunk, NoTextChunk }

\* metadata.grounding_chunks when it is a list: at most MaxChunks chunks.
ChunkLists == UNION { [1..n -> Chunks] : n \in 0..MaxChunks }

\* The shapes of a candidate whose grounding_metadata is an object: the
\* chunks missing, None or a list; the entry point missing, None, or an
\* object whose rendered_content is missing, None, or a text that is
\* shorter than, as long as, or longer than the prefix kept.
GroundedCandidates ==
    { Candidate("object", ch[1], ch[2], en[1], en[2], en[3]) :
          ch \in { <<"absent", <<>> >>, <<"none", <<>> >> }
                    \cup { <<"list", l>> : l \in ChunkLists },
          en \in { <<"absent", "absent", <<>> >>,
                   <<"none", "absent", <<>> >>,
                   <<"object", "absent", <<>> >>,
                   <<"object", "none", <<>> >>,
                   <<"object", "text", Rendered(3)>>,
                   <<"object", "text", Rendered(PrefixLen)>>,
                   <<"object", "text", Rendered(PrefixLen + 1)>> } }

\* The candidate lists citation extraction is checked on: none, any one
\* candidate, or two of the candidates above.
CiteCandidateLists ==
    { <<>> }
    \cup { <<c>> : c \in GroundedCandidates \cup Candidates }
    \cup { <<c, d>> : c \in Candidates, d \in Candidates }

\* The responses citation extraction is checked on.
CiteResponses ==
    { [hasText |-> TRUE, text |-> t, candidates |-> cs] :
          t \in Texts, cs \in CiteCandidateLists }
    \cup { [hasText |-> FALSE, text |-> [kind |-> "none", chars |-> <<>>],
            candidates |-> cs] : cs \in { <<>>, << Candidate("object", "list",
                <<TextChunk>>, "absent", "absent", <<>>) >> } }

(***************************************************************************)
(* _extract_citations.  An error while walking the metadata leaves the     *)
(* try block; the citations appended before it stay in the list.           *)
(***************************************************************************)
Citation(text, source) == [text |-> text, source |-> source]

\* The dictionary built for one grounding chunk.
ChunkCitation(chunk) ==
    Citation(IF chunk.hasText THEN chunk.text ELSE <<>>,
             IF chunk.hasSource THEN chunk.source ELSE <<UnknownLabel>>)

\* A filter that keeps every chunk citation.
KeepAnyCitation(citation) == TRUE

\* The text of a chunk citation decides whether it is kept.
KeepCitation(citation) == Truthy(citation.text)

RECURSIVE ChunkCitations(_)
ChunkCitations(chunks) ==
    IF chunks = <<>> THEN <<>>
    ELSE LET citation == ChunkCitation(Head(chunks))
             rest == ChunkCitations(Tail(chunks))
         IN IF KeepCitation(citation) THEN <<citation>> \o rest ELSE rest

\* An entry citation that keeps the whole rendered content.
EntryCitationWhole(content) ==
    Citation(content \o Ellipsis, <<FileSearchLabel>>)

\* The citation synthesized from a search entry point.
EntryCitation(content) ==
    Citation(Prefix(content, PrefixLen) \o Ellipsis, <<FileSearchLabel>>)

\* A candidate loop whose error discards what the candidate appended.
CandidateCitationsOrNone(c) ==
    IF c.meta # "object" THEN [cits |-> <<>>, raised |-> FALSE]
    ELSE IF c.chunks = "none" THEN [cits |-> <<>>, raised |-> TRUE]
    ELSE LET fromChunks == IF c.chunks = "list" THEN ChunkCitations(c.chunkList)
                           ELSE <<>>
         IN IF c.entry # "object" \/ c.rendered = "absent"
                THEN [cits |-> fromChunks, raised |-> FALSE]
            ELSE IF c.rendered = "none"
                THEN [cits |-> <<>>, raised |-> TRUE]
            ELSE [cits |-> Append(fromChunks, EntryCitation(c.content)),
                  raised |-> FALSE]

\* One iteration of the candidate loop: the citations it appends and
\* whether it raised.
CandidateCitations(c) ==
    IF c.meta # "object" THEN [cits |-> <<>>, raised |-> FALSE]
    ELSE IF c.chunks = "none" THEN [cits |-> <<>>, raised |-> TRUE]
    ELSE LET fromChunks == IF c.chunks = "list" THEN ChunkCitations(c.chunkList)
                           ELSE <<>>
         IN IF c.entry # "object" \/ c.rendered = "absent"
                THEN [cits |-> fromChunks, raised |-> FALSE]
            ELSE IF c.rendered = "none"
                THEN [cits |-> fromChunks, raised |-> TRUE]
            ELSE [cits |-> Append(fromChunks, EntryCitation(c.content)),
                  raised |-> FALSE]

\* A walk that looks at the first candidate only.
WalkFirstCandidate(cands) ==
    IF cands = <<>> THEN <<>> ELSE CandidateCitations(Head(cands)).cits

RECURSIVE WalkCandidates(_)
WalkCandidates(cands) ==
    IF cands = <<>> THEN <<>>
    ELSE LET first == CandidateCitations(Head(cands))
         IN IF first.raised THEN first.cits
            ELSE first.cits \o WalkCandidates(Tail(cands))

_extract_citations(response) == WalkCandidates(response.candidates)

\* answer_text = response.text if hasattr(response, 'text') else str(response)
AnswerText(response) == IF response.hasText THEN response.text ELSE ReprOfResponse

\* A query that treats a response without citations as a failure.
QueryResultNeedsGrounding(response) ==
    IF _extract_citations(response) = <<>>
    THEN [answer |-> [kind |-> "text", chars |-> <<ErrorPrefix, "no grounding">>],
          citations |-> <<>>]
    ELSE [answer |-> AnswerText(response),
          citations |-> _extract_citations(response)]

\* The dictionary query returns when generate_content succeeded.
QueryResult(response) ==
    [answer |-> AnswerText(response), citations |-> _extract_citations(response)]

\* An error answer that is str(e) alone, which may be empty.
BareErrorResult(cause) ==
    [answer |-> [kind |-> "text", chars |-> cause], citations |-> <<>>]

\* The dictionary query returns when generate_content raised with str(e) = cause.
ErrorResult(cause) ==
    [answer |-> [kind |-> "text", chars |-> <<ErrorPrefix>> \o cause],
     citations |-> <<>>]

(***************************************************************************)
(* State.                                                                  *)
(***************************************************************************)
VARIABLES
    file_search_store,  \* self.file_search_store: None or the id of a store
    uploaded_files,     \* self.uploaded_files
    remoteStores,       \* the service: ids of the stores that exist
    created,            \* the service: number of stores created so far
    pc,                 \* where the object's single thread of control is
    file_paths,         \* upload_files: its argument
    idx,                \* upload_files: position of the for loop, from 1
    uploaded_names,     \* upload_files: the list it returns
    operation,          \* upload_files: the operation handle of the current file
    polls,              \* upload_files: operations.get calls for the current file
    status,             \* per input position, how far its ingestion got
    printed,            \* positions whose failure upload_files printed, in order
    submitted,          \* positions whose upload upload_files submitted, in order
    calls,              \* remote capabilities invoked by the current or last call
    last,               \* the current or most recent method call and its outcome
    mainPc,             \* main: the step it is at, "none" when main is not running
    history,            \* ChatInterface.history
    input,              \* ChatInterface.start: the line last read at the prompt
    incoming,           \* the response the service holds ready for the next query
    scenario            \* how far the calls made follow upload, query, cleanup

vars == << file_search_store, uploaded_files, remoteStores, created, pc,
           file_paths, idx, uploaded_names, operation, polls, status, printed,
           submitted, calls, last, mainPc, history, input, incoming,
           scenario >>

locals == << file_paths, idx, uploaded_names, operation, polls, status, printed,
             submitted >>

\* What lies outside the GeminiRAG object: main, the chat loop and the
\* response held ready.
outside == << mainPc, history, input, incoming >>

\* The answer of a call that returned none.
NoAnswer == [kind |-> "none", chars |-> <<>>]

\* The record kept of a method call.  kind: "running", "return" or "raise";
\* store: file_search_store when the method was entered; remote: "ok" or
\* "fail" for the create, generate or delete call it made, "na" when it
\* made none; signal: "interrupt" once a KeyboardInterrupt was delivered
\* during the call; question: the argument of query.
Call(op, kind, store, remote, names, result) ==
    [op |-> op, kind |-> kind, store |-> store, wasOpen |-> store # None,
     remote |-> remote, names |-> names,
     answer |-> result.answer, citations |-> result.citations,
     signal |-> "none", question |-> <<>>]

\* The record of a query call with its question.
Asked(call, question) == [call EXCEPT !.question = question]

NoResult == [answer |-> NoAnswer, citations |-> <<>>]

IsOpen == file_search_store # None

\* GeminiRAG.__init__
ObjectInit ==
    /\ file_search_store = None
    /\ uploaded_files = <<>>
    /\ remoteStores = {}
    /\ created = 0
    /\ pc = "idle"
    /\ file_paths = <<>>
    /\ idx = 1
    /\ uploaded_names = <<>>
    /\ operation = "none"
    /\ polls = 0
    /\ status = <<>>
    /\ printed = <<>>
    /\ submitted = <<>>
    /\ calls = {}
    /\ last = Call("none", "return", None, "na", <<>>, NoResult)

\* No response is held ready.
NoResponse == [hasText |-> FALSE, text |-> NoAnswer, candidates |-> <<>>]

\* upload_files has returned from a list of two documents of which the
\* first was indexed and the second failed in its upload call (operation
\* is still the handle of the first).
ScenarioIngested ==
    /\ pc = "idle"
    /\ last.op = "upload_files"
    /\ last.kind = "return"
    /\ last.remote = "ok"
    /\ Len(file_paths) = 2
    /\ status = <<"Indexed", "Failed">>
    /\ operation = "done_ok"

\* The sequence of test_gemini_rag, followed from such a return: "ingested"
\* when upload_files has so returned, "asked" after the query that follows
\* it, "closed" after the cleanup that follows the query.
Track ==
    scenario' =
        IF ScenarioIngested' THEN "ingested"
        ELSE IF scenario = "ingested" /\ last'.op = "query" THEN "asked"
        ELSE IF scenario = "asked" /\ last'.op = "cleanup" THEN "closed"
        ELSE "none"

\* What input() gave the chat loop last: a line, or a KeyboardInterrupt.
NoInput == [key |-> "none", line |-> <<>>]

Typed(line) == [key |-> "enter", line |-> line]

Interrupted == [key |-> "interrupt", line |-> <<>>]

\* The object used on its own: main and the chat loop are not running.
Standalone == UNCHANGED outside /\ Track

\* A new object, used on its own.
Init ==
    /\ ObjectInit
    /\ mainPc = "none"
    /\ history = <<>>
    /\ input = NoInput
    /\ incoming = NoResponse
    /\ scenario = "none"

\* The locals of upload_files are gone once another method runs.
DropLocals ==
    /\ file_paths' = <<>>
    /\ idx' = 1
    /\ uploaded_names' = <<>>
    /\ operation' = "none"
    /\ polls' = 0
    /\ status' = <<>>
    /\ printed' = <<>>
    /\ submitted' = <<>>

(***************************************************************************)
(* upload_files.  It blocks on the remote calls, so it is a sequence of    *)
(* steps: the create call, then per file the upload call, the polling      *)
(* loop and the bookkeeping, then the return.                              *)
(***************************************************************************)
\* Entering upload_files with the argument paths.
EnterUploadFiles(paths) ==
    /\ pc = "idle"
    /\ file_paths' = paths
    /\ idx' = 1
    /\ uploaded_names' = <<>>
    /\ operation' = "none"
    /\ polls' = 0
    /\ status' = [i \in 1..Len(paths) |-> "Pending"]
    /\ printed' = <<>>
    /\ submitted' = <<>>
    /\ calls' = {"create"}

\* file_search_stores.create returns a store: it is assigned and the loop starts.
CreateStoreOk(paths) ==
    /\ EnterUploadFiles(paths)
    /\ created < MaxStores
    /\ created' = created + 1
    /\ remoteStores' = remoteStores \cup {created + 1}
    /\ file_search_store' = created + 1
    /\ last' = Call("upload_files", "running", file_search_store, "ok", <<>>, NoResult)
    /\ pc' = "loop"
    /\ UNCHANGED uploaded_files

\* A failed create call that is printed but not returned from: the for
\* loop starts all the same.
CreateStoreFailFallsThrough(paths) ==
    /\ EnterUploadFiles(paths)
    /\ last' = Call("upload_files", "running", file_search_store, "fail", <<>>, NoResult)
    /\ pc' = "loop"
    /\ UNCHANGED << file_search_store, uploaded_files, remoteStores, created >>

\* file_search_stores.create raises: the error is printed and [] returned.
CreateStoreFail(paths) ==
    /\ EnterUploadFiles(paths)
    /\ last' = Call("upload_files", "return", file_search_store, "fail", <<>>, NoResult)
    /\ pc' = "idle"
    /\ UNCHANGED << file_search_store, uploaded_files, remoteStores, created >>

\* A failure that ends the for loop instead of moving to the next file.
AbortBatch(i, n) == n + 1

\* A failure after which the same file is taken again.
RetryFile(i, n) == i

\* Where the for loop goes after a file failed: `continue`, or the end of
\* the except block; either way the next file.
AfterFailure(i, n) == i + 1

\* The file at position idx failed: print it and go on.
FailFile ==
    /\ status' = [status EXCEPT ![idx] = "Failed"]
    /\ printed' = Append(printed, idx)
    /\ idx' = AfterFailure(idx, Len(file_paths))
    /\ pc' = "loop"
    /\ UNCHANGED << file_search_store, uploaded_files, remoteStores, created,
                    file_paths, uploaded_names, submitted, last >>

\* The for loop takes the next file and calls upload_to_file_search_store.
SubmitUpload ==
    /\ pc = "loop"
    /\ idx <= Len(file_paths)
    /\ status' = [status EXCEPT ![idx] = "Uploading"]
    /\ submitted' = Append(submitted, idx)
    /\ calls' = calls \cup {"upload"}
    /\ pc' = "uploading"
    /\ UNCHANGED << file_search_store, uploaded_files, remoteStores, created,
                    file_paths, idx, uploaded_names, operation, polls, printed,
                    last >>

\* The upload call raises.
UploadRaises ==
    /\ pc = "uploading"
    /\ FailFile
    /\ UNCHANGED << operation, polls, calls >>

\* An upload whose returned operation is taken as finished without being
\* looked at: the file name is recorded at once.
UploadReturnsUnpolled(handle) ==
    /\ pc = "uploading"
    /\ operation' = handle
    /\ polls' = 0
    /\ uploaded_files' = Append(uploaded_files, Basename(file_paths[idx]))
    /\ uploaded_names' = Append(uploaded_names, Basename(file_paths[idx]))
    /\ status' = [status EXCEPT ![idx] = "Indexed"]
    /\ idx' = idx + 1
    /\ pc' = "loop"
    /\ UNCHANGED << file_search_store, remoteStores, created, file_paths,
                    printed, submitted, calls, last >>

\* The upload call returns an operation handle: pending, done, or done
\* with an error.
UploadReturns(handle) ==
    /\ pc = "uploading"
    /\ operation' = handle
    /\ polls' = 0
    /\ status' = [status EXCEPT ![idx] = "Indexing"]
    /\ pc' = "poll"
    /\ UNCHANGED << file_search_store, uploaded_files, remoteStores, created,
                    file_paths, idx, uploaded_names, printed, submitted, calls,
                    last >>

\* while not operation.done: sleep(2), operations.get returns a handle.
PollReturns(handle) ==
    /\ pc = "poll"
    /\ operation = "pending"
    /\ operation' = handle
    /\ polls' = Min(polls + 1, MaxPolls)
    /\ calls' = calls \cup {"poll"}
    /\ UNCHANGED << file_search_store, uploaded_files, remoteStores, created, pc,
                    file_paths, idx, uploaded_names, status, printed, submitted,
                    last >>

\* while not operation.done: sleep(2), operations.get raises.
PollRaises ==
    /\ pc = "poll"
    /\ operation = "pending"
    /\ FailFile
    /\ polls' = Min(polls + 1, MaxPolls)
    /\ calls' = calls \cup {"poll"}
    /\ UNCHANGED operation

\* An operation error that is printed without `continue`: the name is
\* recorded all the same.
OperationFailedFallsThrough ==
    /\ pc = "poll"
    /\ operation = "done_err"
    /\ uploaded_files' = Append(uploaded_files, Basename(file_paths[idx]))
    /\ uploaded_names' = Append(uploaded_names, Basename(file_paths[idx]))
    /\ status' = [status EXCEPT ![idx] = "Failed"]
    /\ printed' = Append(printed, idx)
    /\ idx' = idx + 1
    /\ pc' = "loop"
    /\ UNCHANGED << file_search_store, remoteStores, created, file_paths,
                    operation, polls, submitted, calls, last >>

\* The operation is done and carries an error.
OperationFailed ==
    /\ pc = "poll"
    /\ operation = "done_err"
    /\ FailFile
    /\ UNCHANGED << operation, polls, calls >>

\* An append that is lost.
SkipName(list, path) == list

\* list.append(filename), filename being the base name of the path.
AppendName(list, path) == Append(list, Basename(path))

\* The operation is done with no error: the file name is recorded.
OperationSucceeded ==
    /\ pc = "poll"
    /\ operation = "done_ok"
    /\ uploaded_files' = AppendName(uploaded_files, file_paths[idx])
    /\ uploaded_names' = AppendName(uploaded_names, file_paths[idx])
    /\ status' = [status EXCEPT ![idx] = "Indexed"]
    /\ idx' = idx + 1
    /\ pc' = "loop"
    /\ UNCHANGED << file_search_store, remoteStores, created, file_paths,
                    operation, polls, printed, submitted, calls, last >>

\* The for loop is exhausted: return uploaded_names.
UploadFilesReturn ==
    /\ pc = "loop"
    /\ idx > Len(file_paths)
    /\ last' = [last EXCEPT !.kind = "return", !.names = uploaded_names]
    /\ pc' = "idle"
    /\ UNCHANGED << file_search_store, uploaded_files, remoteStores, created,
                    file_paths, idx, uploaded_names, operation, polls, status,
                    printed, submitted, calls >>

\* A KeyboardInterrupt arrives while upload_files waits in the upload call
\* or in the polling loop.  `except Exception` does not catch it: it leaves
\* upload_files.
Interrupt ==
    /\ \/ pc = "uploading"
       \/ pc = "poll" /\ operation = "pending"
    /\ last' = [last EXCEPT !.kind = "raise", !.signal = "interrupt"]
    /\ pc' = "idle"
    /\ UNCHANGED << file_search_store, uploaded_files, remoteStores, created,
                    file_paths, idx, uploaded_names, operation, polls, status,
                    printed, submitted, calls >>

(***************************************************************************)
(* query.                                                                  *)
(***************************************************************************)
\* A query without a store that returns an empty result instead of raising.
QuerySilentNoOp(question) ==
    /\ pc = "idle"
    /\ ~IsOpen
    /\ last' = Asked(Call("query", "return", file_search_store, "na", <<>>, NoResult),
                     question)
    /\ calls' = {}
    /\ DropLocals
    /\ UNCHANGED << file_search_store, uploaded_files, remoteStores, created, pc >>

\* The guard of query: no store, so ValueError is raised before any call.
QueryNotInitialized(question) ==
    /\ pc = "idle"
    /\ ~IsOpen
    /\ last' = Asked(Call("query", "raise", file_search_store, "na", <<>>, NoResult),
                     question)
    /\ calls' = {}
    /\ DropLocals
    /\ UNCHANGED << file_search_store, uploaded_files, remoteStores, created, pc >>

\* generate_content returns a response; the answer and citations are read.
QueryAnswers(question, response) ==
    /\ pc = "idle"
    /\ IsOpen
    /\ last' = Asked(Call("query", "return", file_search_store, "ok", <<>>, QueryResult(response)),
                     question)
    /\ calls' = {"generate"}
    /\ DropLocals
    /\ UNCHANGED << file_search_store, uploaded_files, remoteStores, created, pc >>

\* A failed generate call after which the object drops its store.
QueryFailsAndCloses(question, cause) ==
    /\ pc = "idle"
    /\ IsOpen
    /\ last' = Asked(Call("query", "return", file_search_store, "fail", <<>>, ErrorResult(cause)),
                     question)
    /\ calls' = {"generate"}
    /\ DropLocals
    /\ file_search_store' = None
    /\ uploaded_files' = <<>>
    /\ UNCHANGED << remoteStores, created, pc >>

\* generate_content raises: the error becomes the answer.
QueryFails(question, cause) ==
    /\ pc = "idle"
    /\ IsOpen
    /\ last' = Asked(Call("query", "return", file_search_store, "fail", <<>>, ErrorResult(cause)),
                     question)
    /\ calls' = {"generate"}
    /\ DropLocals
    /\ UNCHANGED << file_search_store, uploaded_files, remoteStores, created, pc >>

(***************************************************************************)
(* cleanup.                                                                *)
(***************************************************************************)
\* No store: a warning is printed and cleanup returns.
CleanupNothing ==
    /\ pc = "idle"
    /\ ~IsOpen
    /\ last' = Call("cleanup", "return", file_search_store, "na", <<>>, NoResult)
    /\ calls' = {}
    /\ DropLocals
    /\ UNCHANGED << file_search_store, uploaded_files, remoteStores, created, pc >>

\* A delete that succeeds on the service while the object keeps its store.
CleanupDeletesKeepsStore ==
    /\ pc = "idle"
    /\ IsOpen
    /\ remoteStores' = remoteStores \ {file_search_store}
    /\ last' = Call("cleanup", "return", file_search_store, "ok", <<>>, NoResult)
    /\ calls' = {"delete"}
    /\ DropLocals
    /\ UNCHANGED << file_search_store, uploaded_files, created, pc >>

\* file_search_stores.delete succeeds: the store and the file list are reset.
CleanupDeletes ==
    /\ pc = "idle"
    /\ IsOpen
    /\ remoteStores' = remoteStores \ {file_search_store}
    /\ file_search_store' = None
    /\ uploaded_files' = <<>>
    /\ last' = Call("cleanup", "return", file_search_store, "ok", <<>>, NoResult)
    /\ calls' = {"delete"}
    /\ DropLocals
    /\ UNCHANGED << created, pc >>

\* file_search_stores.delete raises: the error is printed, nothing is reset.
CleanupDeleteFails ==
    /\ pc = "idle"
    /\ IsOpen
    /\ last' = Call("cleanup", "return", file_search_store, "fail", <<>>, NoResult)
    /\ calls' = {"delete"}
    /\ DropLocals
    /\ UNCHANGED << file_search_store, uploaded_files, remoteStores, created, pc >>

Handles == {"pending", "done_ok", "done_err"}

Next ==
    \/ (\E paths \in PathLists : CreateStoreOk(paths)) /\ Standalone
    \/ (\E paths \in PathLists : CreateStoreFail(paths)) /\ Standalone
    \/ SubmitUpload /\ Standalone
    \/ UploadRaises /\ Standalone
    \/ (\E handle \in Handles : UploadReturns(handle)) /\ Standalone
    \/ (\E handle \in Handles : PollReturns(handle)) /\ Standalone
    \/ PollRaises /\ Standalone
    \/ OperationFailed /\ Standalone
    \/ OperationSucceeded /\ Standalone
    \/ UploadFilesReturn /\ Standalone
    \/ Interrupt /\ Standalone
    \/ (\E question \in Questions : QueryNotInitialized(question)) /\ Standalone
    \/ (\E question \in Questions, response \in SessionResponses :
            QueryAnswers(question, response)) /\ Standalone
    \/ (\E question \in Questions, cause \in Causes :
            QueryFails(question, cause)) /\ Standalone
    \/ CleanupNothing /\ Standalone
    \/ CleanupDeletes /\ Standalone
    \/ CleanupDeleteFails /\ Standalone

Spec == Init /\ [][Next]_vars

(***************************************************************************)
(* Citation extraction on its own: an object whose upload_files has        *)
(* returned with one file indexed is asked a question, and the service     *)
(* answers with the response it holds ready.                               *)
(***************************************************************************)
\* upload_files([Path(1)]) on a new object has returned with the file indexed.
AfterUpload ==
    /\ file_search_store = 1
    /\ uploaded_files = <<FileNames[1]>>
    /\ remoteStores = {1}
    /\ created = 1
    /\ pc = "idle"
    /\ file_paths = <<Path(1)>>
    /\ idx = 2
    /\ uploaded_names = <<FileNames[1]>>
    /\ operation = "done_ok"
    /\ polls = 0
    /\ status = <<"Indexed">>
    /\ printed = <<>>
    /\ submitted = <<1>>
    /\ calls = {"create", "upload"}
    /\ last = Call("upload_files", "return", None, "ok", <<FileNames[1]>>, NoResult)

CiteInit ==
    /\ AfterUpload
    /\ mainPc = "none"
    /\ history = <<>>
    /\ input = NoInput
    /\ incoming \in CiteResponses
    /\ scenario = "none"

\* query, answered with the response held ready.
CiteQuery ==
    /\ \E question \in Questions : QueryAnswers(question, incoming)
    /\ UNCHANGED outside
    /\ Track

CiteNext == CiteQuery

CiteSpec == CiteInit /\ [][CiteNext]_vars

(***************************************************************************)
(* main from step 3 on: rag.upload_files(file_paths), chat.start(), the    *)
(* cleanup prompt.  mainPc is "step3", "chat", "cleanup", "done", or       *)
(* "exited" once main has called sys.exit.                                 *)
(***************************************************************************)
\* The lists create_transcript_files hands to main: the step-1 check lets
\* main go on only when there is a video.
MainPathLists == PathLists \ { <<>> }

\* The lines typed at the chat prompt.
ChatInputs ==
    { <<"exit">>, <<"quit">>, <<"q">>, <<"bye">>, <<" ", "EXIT">>, <<>>, <<" ">>,
      <<"help">>, <<"history">>, <<"clear">>, <<"What is covered?">>,
      <<" ", "What is covered?", " ">> }

ExitCommands == { <<"exit">>, <<"quit">>, <<"q">>, <<"bye">> }

SpecialCommands == { <<"help">>, <<"history">>, <<"clear">> }

\* The line ends the loop: question.lower() in ["exit", "quit", "q", "bye"]
IsExit(line) == Lower(Strip(line)) \in ExitCommands

\* The line reaches self.rag.query.
IsQuestion(line) ==
    /\ ~IsExit(line)
    /\ Strip(line) # <<>>
    /\ Lower(Strip(line)) \notin SpecialCommands

MainInit ==
    /\ ObjectInit
    /\ mainPc = "step3"
    /\ history = <<>>
    /\ input = NoInput
    /\ incoming = NoResponse
    /\ scenario = "none"

\* A step A of rag.upload_files(file_paths) in step 3.  When upload_files
\* returns, whatever it returns, main goes on to the chat; a
\* KeyboardInterrupt that leaves it makes main exit.
Step3(A) ==
    /\ mainPc = "step3"
    /\ A
    /\ mainPc' = IF pc' # "idle" THEN "step3"
                 ELSE IF last'.kind = "raise" THEN "exited"
                 ELSE "chat"
    /\ UNCHANGED << history, input, incoming >>
    /\ Track

\* The chat loop reads an exit command: goodbye, break.
ChatExit(line) ==
    /\ mainPc = "chat"
    /\ IsExit(line)
    /\ input' = Typed(line)
    /\ mainPc' = "cleanup"
    /\ UNCHANGED << file_search_store, uploaded_files, remoteStores, created, pc,
                    locals, calls, last, history, incoming, scenario >>

\* The chat loop reads an empty line, help or history: it prints (an error
\* of the printing is caught and printed too) and prompts again.
ChatContinue(line) ==
    /\ mainPc = "chat"
    /\ ~IsExit(line)
    /\ Strip(line) = <<>> \/ Lower(Strip(line)) \in { <<"help">>, <<"history">> }
    /\ input' = Typed(line)
    /\ UNCHANGED << file_search_store, uploaded_files, remoteStores, created, pc,
                    locals, calls, last, mainPc, history, incoming, scenario >>

\* The chat loop reads clear: self.history = [].
ChatClear(line) ==
    /\ mainPc = "chat"
    /\ Lower(Strip(line)) = <<"clear">>
    /\ input' = Typed(line)
    /\ history' = <<>>
    /\ UNCHANGED << file_search_store, uploaded_files, remoteStores, created, pc,
                    locals, calls, last, mainPc, incoming, scenario >>

\* The entry appended to self.history for a result.
HistoryEntry(question, call) ==
    [question |-> question, answer |-> call.answer, citations |-> call.citations]

\* A query error that leaves the loop and main with it.
ChatAskUncaught(line, A) ==
    /\ mainPc = "chat"
    /\ IsQuestion(line)
    /\ Len(history) < MaxHistory
    /\ A
    /\ input' = Typed(line)
    /\ history' = IF last'.kind = "return"
                  THEN Append(history, HistoryEntry(Strip(line), last'))
                  ELSE history
    /\ mainPc' = IF last'.kind = "return" THEN "chat" ELSE "exited"
    /\ UNCHANGED incoming
    /\ Track

\* The chat loop reads a question and calls self.rag.query, A being the way
\* query ends.  A result is displayed and appended to the history; an
\* error raised by query is caught by `except Exception` and printed.
\* Either way the loop prompts again.
ChatAsk(line, A) ==
    /\ mainPc = "chat"
    /\ IsQuestion(line)
    /\ Len(history) < MaxHistory
    /\ A
    /\ input' = Typed(line)
    /\ history' = IF last'.kind = "return"
                  THEN Append(history, HistoryEntry(Strip(line), last'))
                  ELSE history
    /\ mainPc' = "chat"
    /\ UNCHANGED incoming
    /\ Track

\* KeyboardInterrupt in the chat loop: goodbye, break.
ChatInterrupt ==
    /\ mainPc = "chat"
    /\ input' = Interrupted
    /\ mainPc' = "cleanup"
    /\ UNCHANGED << file_search_store, uploaded_files, remoteStores, created, pc,
                    locals, calls, last, history, incoming, scenario >>

\* The cleanup prompt is answered y: rag.cleanup(), A being the way it ends.
MainCleanup(A) ==
    /\ mainPc = "cleanup"
    /\ A
    /\ mainPc' = "done"
    /\ UNCHANGED << history, input, incoming >>
    /\ Track

\* The cleanup prompt is answered otherwise.
MainKeep ==
    /\ mainPc = "cleanup"
    /\ mainPc' = "done"
    /\ UNCHANGED << file_search_store, uploaded_files, remoteStores, created, pc,
                    locals, calls, last, history, input, incoming, scenario >>

\* KeyboardInterrupt at the cleanup prompt: main prints and exits.
MainInterrupt ==
    /\ mainPc = "cleanup"
    /\ mainPc' = "exited"
    /\ UNCHANGED << file_search_store, uploaded_files, remoteStores, created, pc,
                    locals, calls, last, history, input, incoming, scenario >>

MainNext ==
    \/ Step3(\E paths \in MainPathLists : CreateStoreOk(paths))
    \/ Step3(\E paths \in MainPathLists : CreateStoreFail(paths))
    \/ Step3(SubmitUpload)
    \/ Step3(UploadRaises)
    \/ Step3(\E handle \in Handles : UploadReturns(handle))
    \/ Step3(\E handle \in Handles : PollReturns(handle))
    \/ Step3(PollRaises)
    \/ Step3(OperationFailed)
    \/ Step3(OperationSucceeded)
    \/ Step3(UploadFilesReturn)
    \/ Step3(Interrupt)
    \/ \E line \in ChatInputs : ChatExit(line)
    \/ \E line \in ChatInputs : ChatContinue(line)
    \/ \E line \in ChatInputs : ChatClear(line)
    \/ \E line \in ChatInputs : ChatAsk(line, QueryNotInitialized(Strip(line)))
    \/ \E line \in ChatInputs :
           ChatAsk(line, \E response \in SessionResponses :
                             QueryAnswers(Strip(line), response))
    \/ \E line \in ChatInputs :
           ChatAsk(line, \E cause \in Causes : QueryFails(Strip(line), cause))
    \/ ChatInterrupt
    \/ MainCleanup(CleanupNothing)
    \/ MainCleanup(CleanupDeletes)
    \/ MainCleanup(CleanupDeleteFails)
    \/ MainKeep
    \/ MainInterrupt

MainSpec == MainInit /\ [][MainNext]_vars

(***************************************************************************)
(* Properties.                                                             *)
(***************************************************************************)
\* upload_files has returned after its create call succeeded.
IngestReturned ==
    /\ last.op = "upload_files"
    /\ last.kind = "return"
    /\ last.remote = "ok"

\* upload_files has returned after its create call failed.
CreateFailed ==
    /\ last.op = "upload_files"
    /\ last.remote = "fail"

\* The positions of st, in order, whose entry is val.
RECURSIVE PositionsWith(_, _, _)
PositionsWith(st, val, from) ==
    IF from > Len(st) THEN <<>>
    ELSE IF st[from] = val THEN <<from>> \o PositionsWith(st, val, from + 1)
    ELSE PositionsWith(st, val, from + 1)

\* The base names of the given positions of paths.
NamesAt(paths, positions) ==
    [k \in 1..Len(positions) |-> Basename(paths[positions[k]])]

\* How often x occurs in the sequence s.
Occurrences(s, x) == Cardinality({ k \in 1..Len(s) : s[k] = x })

\* C1: a failure of one document (the upload call raises, the poll call
\* raises, or the finished operation carries an error) never aborts the
\* batch: while upload_files runs, every position before the loop position
\* has been attempted and finished and the store stays the one the call
\* created; nothing but a KeyboardInterrupt leaves upload_files as a raised
\* error; when it returns, every input position has been attempted
\* and the store is still set.
C1_FailureNeverAbortsBatch ==
    /\ (last.op = "upload_files" /\ last.kind = "raise") =>
          last.signal = "interrupt"
    /\ (last.op = "upload_files" /\ last.remote = "ok") =>
          /\ IsOpen
          /\ file_search_store = created
          /\ \A i \in 1..Len(file_paths) :
                 i < idx => status[i] \in {"Indexed", "Failed"}
    /\ IngestReturned =>
          \A i \in 1..Len(file_paths) : status[i] \in {"Indexed", "Failed"}

\* C1 witness: upload_files returned, an earlier document failed and a
\* later one was still uploaded and indexed, and the store is set.
C1_Witness ==
    /\ IngestReturned
    /\ IsOpen
    /\ \E i, j \in 1..Len(file_paths) :
           i < j /\ status[i] = "Failed" /\ status[j] = "Indexed"

\* upload_files returns uploaded_names and nothing else: the failure list
\* it hands to its caller is empty whatever happened.
ReturnedFailures(call) == <<>>

C3_PollingStopsAtMaximumWait == pc = "poll" => polls <= MaxWaitPolls

\* C4 as stated: after a failed create call the session is not open.
C4_FailedCreateLeavesSessionNotOpen == CreateFailed => ~IsOpen

C6_QueryOnClosedSessionRaises ==
    (last.op = "query" /\ (~last.wasOpen \/ ~IsOpen)) =>
        /\ last.kind = "raise"
        /\ calls = {}

\* C6 witness: a query was made after cleanup had closed a session that
\* had been open, and it raised.
C6_Witness ==
    /\ last.op = "query"
    /\ last.kind = "raise"
    /\ ~IsOpen
    /\ created > 0

\* C7: on an open session, when the generate call raises, query returns
\* (it does not raise) a result whose answer is a non-empty text that
\* starts with the error prefix and whose citation list is empty.
C7_FailedGenerateReturnsErrorAnswer ==
    (last.op = "query" /\ last.wasOpen /\ last.remote = "fail") =>
        /\ last.kind = "return"
        /\ last.answer.kind = "text"
        /\ Truthy(last.answer.chars)
        /\ Head(last.answer.chars) = ErrorPrefix
        /\ last.citations = <<>>

\* C7 witness: the generate call raised an error whose message is empty,
\* and query returned.
C7_Witness ==
    /\ last.op = "query"
    /\ last.wasOpen
    /\ last.remote = "fail"
    /\ last.answer.chars = <<ErrorPrefix>>

\* C8 as stated: a cleanup that directly follows a cleanup leaves the
\* session not open, does not raise and makes no remote delete call; a
\* cleanup that directly follows a failed create call leaves the session
\* not open.
C8_CleanupIdempotent ==
    [][ /\ (last.op = "cleanup" /\ last'.op = "cleanup") =>
              (~IsOpen' /\ last'.kind = "return" /\ "delete" \notin calls')
        /\ (CreateFailed /\ last'.op = "cleanup") => ~IsOpen' ]_vars

\* C9 as stated: when the remote delete fails, cleanup returns without
\* raising and the session is closed all the same.
C9_FailedDeleteStillCloses ==
    (last.op = "cleanup" /\ last.remote = "fail") =>
        (last.kind = "return" /\ ~IsOpen)

\* C10 as stated: once a store id is assigned to the object no step
\* replaces it by another id.
C10_StoreIdNeverReplaced ==
    [][ (IsOpen /\ IsOpen') => file_search_store' = file_search_store ]_vars


\* A KeyboardInterrupt was delivered to the current or last upload_files call.
IngestInterrupted == last.op = "upload_files" /\ last.signal = "interrupt"

\* C11 (as stated): a user interrupt during the wait aborts only the wait of
\* the document in progress: that document is marked Failed and upload_files
\* goes on, it does not end with a raised error.
C11_InterruptCancelsOnlyCurrentDocument ==
    IngestInterrupted =>
        /\ last.kind # "raise"
        /\ status[submitted[Len(submitted)]] = "Failed"

\* What upload_files does on a user interrupt during the wait: the
\* KeyboardInterrupt leaves it, the call ends there, the document in
\* progress stays unfinished and unreported, every later document stays
\* untouched, and the store and the names recorded so far stay on the object.
InterruptLeavesUploadFiles ==
    IngestInterrupted =>
        /\ last.kind = "raise"
        /\ pc = "idle"
        /\ idx \in 1..Len(file_paths)
        /\ status[idx] \in {"Uploading", "Indexing"}
        /\ \A i \in 1..Len(printed) : printed[i] # idx
        /\ \A i \in (idx + 1)..Len(file_paths) : status[i] = "Pending"
        /\ IsOpen
        /\ file_search_store = created

C13_EmptyQuestionRejected ==
    (last.op = "query" /\ last.wasOpen /\ Strip(last.question) = <<>>) =>
        (last.kind = "raise" /\ calls = {})

\* query has returned the result built from the response held ready.
Answered ==
    /\ last.op = "query"
    /\ last.kind = "return"
    /\ last.remote = "ok"

\* The chunk has a text and the text is not empty.
HasNonEmptyText(chunk) == chunk.hasText /\ chunk.text # <<>>

\* The candidate carries no rendered summary.
NoRenderedSummary(c) ==
    ~(c.meta = "object" /\ c.entry = "object" /\ c.rendered = "text")

\* The candidate carries no grounding chunk.
NoChunks(c) == ~(c.meta = "object" /\ c.chunks = "list" /\ c.chunkList # <<>>)

\* The source recorded for a chunk: its source attribute, or 'Unknown'.
SourceOf(chunk) == IF chunk.hasSource THEN chunk.source ELSE <<UnknownLabel>>

\* The response has one candidate with two grounding chunks, one of empty
\* text and one of non-empty text, and no rendered summary.
TwoChunkCase(r) ==
    /\ Len(r.candidates) = 1
    /\ r.candidates[1].meta = "object"
    /\ r.candidates[1].chunks = "list"
    /\ Len(r.candidates[1].chunkList) = 2
    /\ \E i \in 1..2 :
          /\ HasNonEmptyText(r.candidates[1].chunkList[i])
          /\ ~HasNonEmptyText(r.candidates[1].chunkList[3 - i])
    /\ NoRenderedSummary(r.candidates[1])

\* C14: a chunk of empty text gives no citation: for one empty and one
\* non-empty chunk and no rendered summary the list has exactly one entry,
\* the text and source of the non-empty chunk; and no citation query
\* returns has an empty text.
C14_EmptyTextChunksSkipped ==
    Answered =>
        /\ \A i \in 1..Len(last.citations) : last.citations[i].text # <<>>
        /\ TwoChunkCase(incoming) =>
              /\ Len(last.citations) = 1
              /\ \E i \in 1..2 :
                    LET chunk == incoming.candidates[1].chunkList[i]
                    IN /\ HasNonEmptyText(chunk)
                       /\ last.citations[1].text = chunk.text
                       /\ last.citations[1].source = SourceOf(chunk)

\* The empty chunk came first, the non-empty chunk second, and the one
\* citation was returned.
C14_Witness ==
    /\ Answered
    /\ TwoChunkCase(incoming)
    /\ ~HasNonEmptyText(incoming.candidates[1].chunkList[1])
    /\ Len(last.citations) = 1

\* The response has one candidate with a rendered summary longer than the
\* prefix kept and no grounding chunk.
LongBlobCase(r) ==
    /\ Len(r.candidates) = 1
    /\ r.candidates[1].meta = "object"
    /\ r.candidates[1].chunks \in {"absent", "list"}
    /\ NoChunks(r.candidates[1])
    /\ r.candidates[1].entry = "object"
    /\ r.candidates[1].rendered = "text"
    /\ Len(r.candidates[1].content) > PrefixLen

\* C15: for a rendered summary of more than 200 characters and no chunk,
\* the list has exactly one entry; its source is the fixed label and its
\* text is the first 200 characters of the summary followed by the marker.
C15_LongSummaryTruncated ==
    (Answered /\ LongBlobCase(incoming)) =>
        /\ Len(last.citations) = 1
        /\ last.citations[1].source = <<FileSearchLabel>>
        /\ Len(last.citations[1].text) = PrefixLen + Len(Ellipsis)
        /\ \A i \in 1..PrefixLen :
              last.citations[1].text[i] = incoming.candidates[1].content[i]
        /\ \A i \in 1..Len(Ellipsis) :
              last.citations[1].text[PrefixLen + i] = Ellipsis[i]

\* A summary of 201 characters was cut.
C15_Witness ==
    /\ Answered
    /\ LongBlobCase(incoming)
    /\ Len(last.citations) = 1
    /\ Len(last.citations[1].text) < Len(incoming.candidates[1].content) + Len(Ellipsis)

\* The answer is an error answer.
IsErrorAnswer(answer) ==
    /\ answer.kind = "text"
    /\ answer.chars # <<>>
    /\ Head(answer.chars) = ErrorPrefix

\* The text of the response: its text attribute, or its printed form.
TextOf(r) == IF r.hasText THEN r.text ELSE ReprOfResponse

\* No candidate of the response carries a chunk or a rendered summary.
NoGroundingCase(r) ==
    \A i \in 1..Len(r.candidates) :
        NoChunks(r.candidates[i]) /\ NoRenderedSummary(r.candidates[i])

\* C16: a response with neither chunks nor a rendered summary, candidates
\* without grounding metadata included, gives a result with an empty
\* citation list whose answer is the text of the response, no error answer.
C16_NoGroundingIsNoError ==
    (last.op = "query" /\ last.remote = "ok" /\ NoGroundingCase(incoming)) =>
        /\ last.kind = "return"
        /\ last.citations = <<>>
        /\ last.answer = TextOf(incoming)
        /\ ~IsErrorAnswer(last.answer)

\* A response with a text whose one candidate has no grounding metadata
\* at all was answered.
C16_Witness ==
    /\ Answered
    /\ Len(incoming.candidates) = 1
    /\ incoming.candidates[1].meta = "absent"
    /\ incoming.hasText
    /\ last.answer.chars # <<>>
    /\ last.citations = <<>>

\* Walking the candidate raises: its grounding_chunks is None (iterated),
\* or the rendered_content of its entry point is None (sliced).
RaisesAtChunks(c) == c.meta = "object" /\ c.chunks = "none"

RaisesAtSummary(c) ==
    /\ c.meta = "object"
    /\ c.chunks # "none"
    /\ c.entry = "object"
    /\ c.rendered = "none"

WalkRaises(c) == RaisesAtChunks(c) \/ RaisesAtSummary(c)

\* The citations of the chunks of non-empty text of a candidate, in order.
CitedChunks(c) ==
    IF c.meta = "object" /\ c.chunks = "list"
    THEN LET kept == SelectSeq(c.chunkList, HasNonEmptyText)
         IN [i \in 1..Len(kept) |-> [text |-> kept[i].text, source |-> SourceOf(kept[i])]]
    ELSE <<>>

\* The citation of the rendered summary of a candidate, if it has one.
CitedSummary(c) ==
    IF c.meta = "object" /\ c.entry = "object" /\ c.rendered = "text"
    THEN << [text |-> SubSeq(c.content, 1, Min(PrefixLen, Len(c.content))) \o Ellipsis,
             source |-> <<FileSearchLabel>>] >>
    ELSE <<>>

\* The walk of the response raises, at its first or its second candidate.
WalkRaisesIn(r) == \E i \in 1..Len(r.candidates) : WalkRaises(r.candidates[i])

\* What the walk has appended when it raises at candidate c.
CitedBeforeError(c) == IF RaisesAtSummary(c) THEN CitedChunks(c) ELSE <<>>

\* What the walk has appended when the error is caught.
CitedUntilError(r) ==
    IF WalkRaises(r.candidates[1]) THEN CitedBeforeError(r.candidates[1])
    ELSE CitedChunks(r.candidates[1]) \o CitedSummary(r.candidates[1])
             \o CitedBeforeError(r.candidates[2])

\* C17 (as stated): when walking the metadata raises, query returns the
\* text of the response as its answer and an empty citation list, whatever
\* was walked before the error.
C17_WalkErrorGivesNoCitations ==
    (last.op = "query" /\ last.remote = "ok" /\ WalkRaisesIn(incoming)) =>
        /\ last.kind = "return"
        /\ last.answer = TextOf(incoming)
        /\ last.citations = <<>>

\* C17 (amended): when walking the metadata raises, query returns (it does
\* not raise) the text of the response as its answer, no error answer, and
\* the citations that were appended before the error: those of the earlier
\* candidate and of the chunks of the candidate that raised.
C17_WalkErrorKeepsEarlierCitations ==
    (last.op = "query" /\ last.remote = "ok" /\ WalkRaisesIn(incoming)) =>
        /\ last.kind = "return"
        /\ last.answer = TextOf(incoming)
        /\ ~IsErrorAnswer(last.answer)
        /\ last.citations = CitedUntilError(incoming)

\* The walk raised at the rendered summary after a chunk citation had been
\* appended, and the citation was returned.
C17_Witness ==
    /\ Answered
    /\ Len(incoming.candidates) = 1
    /\ RaisesAtSummary(incoming.candidates[1])
    /\ last.citations # <<>>

\* The positions whose upload was submitted and is not finished.
InFlight == { i \in 1..Len(status) : status[i] \in {"Uploading", "Indexing"} }

\* C19: within one upload_files call the documents are submitted in input
\* order, each once and one at a time: the submitted positions are 1, 2,
\* ... without a gap or a repeat, every position before the last submitted
\* one is finished, every position after it is untouched, and at most one
\* document is in flight.
C19_InOrderOneAtATime ==
    last.op = "upload_files" =>
        /\ submitted = [i \in 1..Len(submitted) |-> i]
        /\ Len(submitted) <= Len(file_paths)
        /\ \A i \in 1..(Len(submitted) - 1) : status[i] \in {"Indexed", "Failed"}
        /\ \A i \in (Len(submitted) + 1)..Len(file_paths) : status[i] = "Pending"
        /\ InFlight \subseteq {Len(submitted)}
        /\ pc \in {"uploading", "poll"} => (idx = Len(submitted) /\ InFlight = {idx})
        /\ pc = "loop" => (idx = Len(submitted) + 1 /\ InFlight = {})

\* The second document is being polled after the first one failed.
C19_Witness ==
    /\ last.op = "upload_files"
    /\ pc = "poll"
    /\ submitted = <<1, 2>>
    /\ status = <<"Failed", "Indexing">>

\* C20: the list upload_files returns holds exactly the documents whose
\* operation was done with no error, in input order: a name is appended
\* when, and only when, the loop leaves a document whose operation is done
\* without error; a document whose upload raised, whose poll raised, whose
\* operation ended with an error or whose wait was interrupted adds
\* nothing; and the list returned is the list so built.
C20_SuccessListIsDoneWithoutError ==
    [][ /\ (pc = "poll" /\ operation = "done_ok" /\ pc' # "poll") =>
              /\ uploaded_names' = Append(uploaded_names, Basename(file_paths[idx]))
              /\ idx' = idx + 1
        /\ (pc \in {"loop", "uploading", "poll"}
                /\ ~(pc = "poll" /\ operation = "done_ok")) =>
              uploaded_names' = uploaded_names
        /\ (pc = "loop" /\ pc' = "idle") =>
              (last'.kind = "return" /\ last'.names = uploaded_names)
        /\ (pc = "idle" /\ pc' = "loop") => uploaded_names' = <<>>
      ]_vars

\* upload_files returned the second of two documents alone, the first
\* having failed.
C20_Witness ==
    /\ IngestReturned
    /\ status = <<"Failed", "Indexed">>
    /\ last.names = <<Basename(file_paths[2])>>

\* C18: a bad query never ends the chat loop: once the loop has read a
\* line, it is still prompting unless that line was an exit command (exit,
\* quit, q, bye) or a KeyboardInterrupt arrived; in particular it is still
\* prompting after a query that raised or returned an error answer.
C18_BadQueryKeepsPrompting ==
    /\ (input.key = "enter" /\ ~IsExit(input.line)) => mainPc = "chat"
    /\ (mainPc \in {"cleanup", "done"}) =>
          (input.key = "interrupt" \/ (input.key = "enter" /\ IsExit(input.line)))
    /\ (mainPc # "step3" /\ last.op = "query" /\ input.key = "enter"
           /\ IsQuestion(input.line)
           /\ (last.kind = "raise" \/ last.remote = "fail")) =>
          mainPc = "chat"

\* The store was never created, a question was typed, query raised, and
\* the loop is prompting again.
C18_Witness ==
    /\ mainPc = "chat"
    /\ input.key = "enter"
    /\ IsQuestion(input.line)
    /\ last.op = "query"
    /\ last.kind = "raise"

\* The place of a status in the order Pending, Uploading, Indexing, and
\* then Indexed or Failed.
StatusRank(st) ==
    CASE st = "Pending" -> 0
      [] st = "Uploading" -> 1
      [] st = "Indexing" -> 2
      [] OTHER -> 3

\* C21: within an upload_files call the status of every document is one
\* of the five, and each step leaves it as it is or moves it forward:
\* never backward, never out of Indexed or Failed, to Uploading only from
\* Pending, to Indexing only from Uploading, to Indexed only from Indexing.
C21_StatusMovesOnlyForward ==
    [][ pc # "idle" =>
          /\ Len(status') = Len(status)
          /\ \A i \in 1..Len(status) :
                /\ status'[i] \in {"Pending", "Uploading", "Indexing", "Indexed", "Failed"}
                /\ StatusRank(status'[i]) >= StatusRank(status[i])
                /\ status[i] \in {"Indexed", "Failed"} => status'[i] = status[i]
                /\ (status'[i] = "Uploading" /\ status[i] # "Uploading") =>
                      status[i] = "Pending"
                /\ (status'[i] = "Indexing" /\ status[i] # "Indexing") =>
                      status[i] = "Uploading"
                /\ (status'[i] = "Indexed" /\ status[i] # "Indexed") =>
                      status[i] = "Indexing"
                /\ (status'[i] = "Failed" /\ status[i] # "Failed") =>
                      status[i] \in {"Uploading", "Indexing"}
      ]_vars

\* The first document went through to Indexed, the second failed in its
\* upload call, and the loop is at its end.
C21_Witness ==
    /\ pc = "loop"
    /\ status = <<"Indexed", "Failed">>
    /\ submitted = <<1, 2>>
    /\ operation = "done_ok"

\* C22 (as stated): main is in the chat loop, where questions are asked,
\* only with a store: the create call of upload_files succeeded and the
\* object holds the store.
C22_ChatOnlyWithReadyStore ==
    mainPc = "chat" => (IsOpen /\ created > 0)

\* The entries of one candidate: its chunks of non-empty text in chunk
\* order, then its rendered summary.
CitedIn(c) == CitedChunks(c) \o CitedSummary(c)

\* The entries of every candidate, in candidate order.
RECURSIVE CitedInAll(_)
CitedInAll(cands) ==
    IF cands = <<>> THEN <<>> ELSE CitedIn(Head(cands)) \o CitedInAll(Tail(cands))

\* The entries of the candidates up to the first one whose walk raises,
\* with what that one appended before it raised.
RECURSIVE CitedInWalked(_)
CitedInWalked(cands) ==
    IF cands = <<>> THEN <<>>
    ELSE IF WalkRaises(Head(cands)) THEN CitedBeforeError(Head(cands))
    ELSE CitedIn(Head(cands)) \o CitedInWalked(Tail(cands))

\* C23 (as stated): the citation list holds one entry for every chunk of
\* non-empty text of every candidate, in candidate order and chunk order,
\* each candidate's rendered-summary entry after its chunk entries, and
\* nothing else.
C23_EveryCandidateAndChunkCited ==
    Answered => last.citations = CitedInAll(incoming.candidates)

\* C23 (amended): the candidates are walked in order, and the chunks of
\* each in order, until the end or the first error: the list holds, for
\* every candidate walked without error, an entry for each of its chunks of
\* non-empty text in chunk order followed by its rendered-summary entry,
\* then the chunk entries of a candidate whose rendered summary raised, and
\* nothing else; with no error this is every chunk of every candidate.
C23_CandidatesCitedInOrderUntilError ==
    Answered =>
        /\ last.citations = CitedInWalked(incoming.candidates)
        /\ ~WalkRaisesIn(incoming) =>
              last.citations = CitedInAll(incoming.candidates)

\* Two candidates were walked without error and both gave an entry: the
\* entry of the first comes first.
C23_Witness ==
    /\ Answered
    /\ Len(incoming.candidates) = 2
    /\ ~WalkRaisesIn(incoming)
    /\ CitedIn(incoming.candidates[1]) # <<>>
    /\ CitedIn(incoming.candidates[2]) # <<>>
    /\ CitedIn(incoming.candidates[1]) # CitedIn(incoming.candidates[2])
    /\ Head(last.citations) = Head(CitedIn(incoming.candidates[1]))

\* C24: query is read-only on the session: a query step, whether it
\* returns an answer, returns an error answer or raises for want of a
\* store, leaves file_search_store and uploaded_files as they were, and
\* with them the stores of the service; an open session stays open with
\* the same store.
C24_QueryLeavesSessionUnchanged ==
    [][ (pc = "idle" /\ last'.op = "query" /\ calls' \subseteq {"generate"}) =>
          /\ file_search_store' = file_search_store
          /\ uploaded_files' = uploaded_files
          /\ remoteStores' = remoteStores
          /\ created' = created
          /\ last'.store = file_search_store
      ]_vars

\* A query whose generate call failed has returned on a session that holds
\* a store and a recorded file, and holds them still.
C24_Witness ==
    /\ last.op = "query"
    /\ last.remote = "fail"
    /\ IsOpen
    /\ file_search_store = last.store
    /\ uploaded_files # <<>>

\* C25 (as stated): no remote store is leaked: at most one store created
\* by the object exists at any time, and after a cleanup whose delete call
\* succeeded none exists.
C25_NoStoreLeaked ==
    /\ Cardinality(remoteStores) <= 1
    /\ (last.op = "cleanup" /\ last.remote = "ok") => remoteStores = {}

====
